---- MODULE Spec2Model ----
(***************************************************************************)
(* A model of src/main.py: the single-pass pipeline                        *)
(*   fetch_plan -> fetch_plan_times -> stash_service_times ->              *)
(*   fetch_plan_items -> map_items_by_plan_time -> build_plan_schedule ->  *)
(*   print_text / print_json                                               *)
(* with its three module-level globals PLAN_ID, PLAN_TIMES and             *)
(* PLAN_ITEMS_BY_TIME.                                                     *)
(*                                                                         *)
(* JSON values are records with a type tag "t", so that the isinstance     *)
(* tests of the source can be written down.  Strings whose characters      *)
(* matter (sequence values, time labels, non-ISO timestamps) are sequences *)
(* of character codes.  Date-times are whole hours counted from            *)
(* datetime.min.                                                           *)
(***************************************************************************)
EXTENDS Integers, Sequences, FiniteSets, TLC

VARIABLES
    pc,                  \* where main (lines 335-354) stands
    env_ok,              \* both credential variables are set (lines 52-54)
    PLAN_ID,             \* line 15
    PLAN_TIMES,          \* line 16: an insertion-ordered dict, as a sequence of [id, iso]
    PLAN_ITEMS_BY_TIME,  \* line 17: a dict, as a function from its keys to lists
    plan_times,          \* main's local (line 342): the plan-times response
    plan_items,          \* main's local (line 344): the plan-items response
    aggregated,          \* map_items_by_plan_time's local (line 193)
    i,                   \* index of the item the loop of line 195 stands at
    j,                   \* index of the reference the loop of line 212 stands at (0: none yet)
    reqlog,              \* every request handed to urlopen (line 100), in order
    schedule,            \* build_plan_schedule's local (lines 279, 300, 302)
    stdout,              \* what print wrote to standard output (lines 317, 332)
    stderr,              \* what was written to standard error (line 347, or a traceback)
    exit_code            \* the process's exit status (-1 while it runs)

vars == <<pc, env_ok, PLAN_ID, PLAN_TIMES, PLAN_ITEMS_BY_TIME, plan_times, plan_items,
          aggregated, i, j, reqlog, schedule, stdout, stderr, exit_code>>

----------------------------------------------------------------------------
(* Bounds of the model *)

\* entries of a plan-times response, in the pipeline
MaxTimes == 2
\* agenda items of a plan-items response, in the pipeline
MaxItems == 2
\* item-time references of one agenda item, in the pipeline
MaxRefs == 2
\* entries of a plan-times response given to stash_service_times alone
MaxStashEntries == 3
\* joined items of one time slot given to build_plan_schedule alone
MaxSlotItems == 3
\* retained time slots given to build_plan_schedule alone
MaxSlots == 3

----------------------------------------------------------------------------
(* JSON scalars *)

JNone == [t |-> "none", s |-> "", n |-> 0, cs |-> <<>>]
JStr(s) == [t |-> "str", s |-> s, n |-> 0, cs |-> <<>>]
JInt(n) == [t |-> "int", s |-> "", n |-> n, cs |-> <<>>]
\* a string given by its characters
JChars(cs) == [t |-> "str", s |-> "", n |-> 0, cs |-> cs]

\* isinstance(x, str), isinstance(x, int)
IsStr(x) == x.t = "str"
IsInt(x) == x.t = "int"

SeqsUpTo(S, n) == UNION {[1..k -> S] : k \in 0..n}

RECURSIVE SumSeq(_)
SumSeq(s) == IF s = <<>> THEN 0 ELSE Head(s) + SumSeq(Tail(s))

\* s < t for two strings, as Python compares them: by code point, a prefix first
RECURSIVE StrLess(_, _)
StrLess(s, t) ==
    IF t = <<>> THEN FALSE
    ELSE IF s = <<>> THEN TRUE
    ELSE IF Head(s) # Head(t) THEN Head(s) < Head(t)
    ELSE StrLess(Tail(s), Tail(t))

----------------------------------------------------------------------------
(* Timestamps: the strings of the API and Python's datetime                *)
(*                                                                         *)
(* A timestamp string is [t, form, wall, off, cs]:                         *)
(*   form "offset"  YYYY-MM-DDTHH:00:00+hh:00   (wall hour, offset off)    *)
(*   form "Z"       YYYY-MM-DDTHH:00:00Z                                   *)
(*   form "naive"   YYYY-MM-DDTHH:00:00                                    *)
(*   form "zsep"    YYYY-MM-DDZHH:00:00  (the letter Z as date/time        *)
(*                  separator, which fromisoformat accepts as any other)   *)
(*   form "text"    any other text, its characters in cs                   *)
(*   form "invalid" an ISO string damaged by a replacement                 *)
(***************************************************************************)

TsIso(form, wall, off) == [t |-> "str", form |-> form, wall |-> wall, off |-> off, cs |-> <<>>]
TsText(cs) == [t |-> "str", form |-> "text", wall |-> 0, off |-> 0, cs |-> cs]
TsNone == [t |-> "none", form |-> "", wall |-> 0, off |-> 0, cs |-> <<>>]

\* datetime.min, in hours
MinWall == 0
\* America/Chicago: standard and daylight offsets from UTC, in hours
CST == -6
CDT == -5
\* America/Chicago: daylight time runs from 08:00 UTC of one day to 07:00 UTC of a later one
DstStartUtc == 80
DstEndUtc == 151

\* a datetime, or None
DtNone == [ok |-> FALSE, aware |-> FALSE, wall |-> 0, off |-> 0]
Dt(aware, wall, off) == [ok |-> TRUE, aware |-> aware, wall |-> wall, off |-> off]

\* str.replace("Z", "+00:00") on a sequence of character codes
RECURSIVE ReplaceZChars(_)
ReplaceZChars(cs) ==
    IF cs = <<>> THEN <<>>
    ELSE IF Head(cs) = 90 THEN <<43, 48, 48, 58, 48, 48>> \o ReplaceZChars(Tail(cs))
    ELSE <<Head(cs)>> \o ReplaceZChars(Tail(cs))

\* timestamp.replace("Z", "+00:00")
ReplaceZ(ts) ==
    CASE ts.form = "Z" -> TsIso("offset", ts.wall, 0)
      [] ts.form = "zsep" -> [ts EXCEPT !.form = "invalid"]
      [] ts.form = "text" -> TsText(ReplaceZChars(ts.cs))
      [] OTHER -> ts

\* datetime.fromisoformat; DtNone stands for its ValueError
fromisoformat(ts) ==
    CASE ts.form = "offset" -> Dt(TRUE, ts.wall, ts.off)
      [] ts.form = "Z" -> Dt(TRUE, ts.wall, 0)
      [] ts.form = "naive" -> Dt(FALSE, ts.wall, 0)
      [] ts.form = "zsep" -> Dt(FALSE, ts.wall, 0)
      [] OTHER -> DtNone

\* the offset of CENTRAL_ZONE at a UTC instant
CentralOffset(utc) == IF DstStartUtc <= utc /\ utc < DstEndUtc THEN CDT ELSE CST

\* to_central_iso: [st, v] with st "ok" (v the converted string), "none" (None was
\* returned) or "overflow" (astimezone raised OverflowError, which is no ValueError
\* and leaves the function)
to_central_iso(timestamp) ==
    LET parsed == fromisoformat(ReplaceZ(timestamp))
        utc == parsed.wall - (IF parsed.aware THEN parsed.off ELSE 0)
        wall == utc + CentralOffset(utc)
    IN  IF ~parsed.ok THEN [st |-> "none", v |-> TsNone]
        ELSE IF utc < MinWall \/ wall < MinWall THEN [st |-> "overflow", v |-> TsNone]
        ELSE [st |-> "ok", v |-> TsIso("offset", wall, CentralOffset(utc))]

\* parse_iso_timestamp
parse_iso_timestamp(value) ==
    IF fromisoformat(value).ok THEN fromisoformat(value)
    ELSE fromisoformat(ReplaceZ(value))

\* two decimal digits
TwoDigits(n) == <<48 + (n \div 10), 48 + (n % 10)>>

\* str.lstrip("0")
RECURSIVE Lstrip0(_)
Lstrip0(cs) == IF cs # <<>> /\ Head(cs) = 48 THEN Lstrip0(Tail(cs)) ELSE cs

\* dt.strftime("%I:%M %p")
strftime_IMp(dt) ==
    LET h == dt.wall % 24
        h12 == ((h + 11) % 12) + 1
    IN  TwoDigits(h12) \o <<58, 48, 48, 32>> \o <<IF h < 12 THEN 65 ELSE 80, 77>>

\* the characters of a stored timestamp that is no ISO string
RawChars(ts) == ts.cs

\* format_time_label: (dt, label)
format_time_label(iso_timestamp) ==
    LET dt == parse_iso_timestamp(iso_timestamp)
    IN  IF ~dt.ok THEN [dt |-> DtNone, label |-> RawChars(iso_timestamp)]
        ELSE [dt |-> dt, label |-> Lstrip0(strftime_IMp(dt))]

----------------------------------------------------------------------------
(* Dicts that keep insertion order, as PLAN_TIMES does *)

DictKeys(d) == {d[k].id : k \in 1..Len(d)}
DictHas(d, key) == key \in DictKeys(d)
DictGet(d, key) == (CHOOSE k \in 1..Len(d) : d[k].id = key)
DictValue(d, key) == d[DictGet(d, key)].iso
\* d[key] = value: a new key goes last, a known key keeps its place
DictSet(d, key, value) ==
    IF DictHas(d, key)
    THEN [d EXCEPT ![DictGet(d, key)] = [id |-> key, iso |-> value]]
    ELSE Append(d, [id |-> key, iso |-> value])

----------------------------------------------------------------------------
(* The API's JSON, as far as the code looks at it                          *)
(*                                                                         *)
(* A response is [isdict, data_is_list, data]: whether the decoded JSON is *)
(* an object, whether its "data" member is a list, and that list.          *)
(* A member that the code reaches with .get(key, {}) is "dict" (an         *)
(* object), "absent" or "other" (present and no object: null, a list, a    *)
(* string).                                                                *)
(***************************************************************************)

Response(data) == [isdict |-> TRUE, data_is_list |-> TRUE, data |-> data]
NoResponse == [isdict |-> TRUE, data_is_list |-> FALSE, data |-> <<>>]

\* an entry of the plan-times response
TimeEntry(id, time_type, starts_at) ==
    [isdict |-> TRUE, attrs |-> TRUE, time_type |-> time_type, starts_at |-> starts_at, id |-> id]

\* an item-time detail response
Detail(data, relationships, plan_time, ptdata, id) ==
    [isdict |-> TRUE, data |-> data, relationships |-> relationships,
     plan_time |-> plan_time, ptdata |-> ptdata, id |-> id]
NoDetail == Detail("absent", "absent", "absent", "absent", JNone)

\* one request of the log
Request(ctx, ok, item, ref, detail) ==
    [ctx |-> ctx, ok |-> ok, item |-> item, ref |-> ref, detail |-> detail]

----------------------------------------------------------------------------
(* stash_service_times, lines 161-182 *)

\* the time_type test left out
EntryKeptAnyType(entry) ==
    /\ entry.isdict
    /\ entry.attrs
    /\ IsStr(entry.id)
    /\ IsStr(entry.starts_at)

\* lines 170-179: whether the loop body reaches line 181 for this entry
EntryKept(entry) ==
    /\ entry.isdict
    /\ entry.attrs
    /\ entry.time_type = "service"
    /\ IsStr(entry.id)
    /\ IsStr(entry.starts_at)

\* line 182: converted or starts_at
StoredTime(starts_at) ==
    IF to_central_iso(starts_at).st = "ok" THEN to_central_iso(starts_at).v ELSE starts_at

\* lines 169-182: the loop over the entries; st is "crash" when to_central_iso raised,
\* and times is PLAN_TIMES as the loop left it
RECURSIVE StashLoop(_, _)
StashLoop(times, entries) ==
    IF entries = <<>> THEN [st |-> "ok", times |-> times]
    ELSE LET entry == Head(entries)
         IN  IF ~EntryKept(entry) THEN StashLoop(times, Tail(entries))
             ELSE IF to_central_iso(entry.starts_at).st = "overflow"
                  THEN [st |-> "crash", times |-> times]
                  ELSE StashLoop(DictSet(times, entry.id.s, StoredTime(entry.starts_at)),
                                 Tail(entries))

\* lines 162-182
StashResult(resp) ==
    IF ~resp.isdict THEN [st |-> "crash", times |-> <<>>]
    ELSE IF ~resp.data_is_list THEN [st |-> "ok", times |-> <<>>]
    ELSE StashLoop(<<>>, resp.data)

----------------------------------------------------------------------------
(* map_items_by_plan_time, lines 185-244 *)

\* lines 196-207 and 209: the item is passed over without any fetch
\* (line 208 is ItemLinksRaise, evaluated between them)
ItemSkippedBeforeLinks(item) ==
    \/ ~item.isdict
    \/ ~item.rels
    \/ ~item.item_times
    \/ ~item.refs_is_list
    \/ item.refs = <<>>

\* line 208: item_times_rel.get("links", {}).get("related") raises AttributeError
ItemLinksRaise(item) == item.links = "other"

\* line 208: the related link
RelatedLink(item) == IF item.links = "dict" THEN item.related ELSE JNone

\* lines 213-217: the reference is passed over without a fetch
RefSkipped(ref) == ~ref.isdict \/ ~IsStr(ref.id)

\* lines 220-228: [st, id] with st "ok" (id a string), "skip" (line 228) or "crash"
\* (a .get on something that is no dict)
plan_time_of(detail) ==
    LET skip == [st |-> "skip", id |-> JNone]
        crash == [st |-> "crash", id |-> JNone]
    IN  IF ~detail.isdict THEN crash
        ELSE IF detail.data = "absent" THEN skip
        ELSE IF detail.data = "other" THEN crash
        ELSE IF detail.relationships = "absent" THEN skip
        ELSE IF detail.relationships = "other" THEN crash
        ELSE IF detail.plan_time = "absent" THEN skip
        ELSE IF detail.plan_time = "other" THEN crash
        ELSE IF detail.ptdata # "dict" THEN skip
        ELSE IF ~IsStr(detail.id) THEN skip
        ELSE [st |-> "ok", id |-> detail.id]

\* the service filter left out
AcceptedAny(times, plan_time_id) == TRUE

\* lines 230-231: the reference passes the service filter
Accepted(times, plan_time_id) == times = <<>> \/ DictHas(times, plan_time_id)

\* lines 233-241
JoinRecord(item, item_time_id) ==
    [item_id |-> item.id,
     item_time_id |-> item_time_id,
     title |-> IF item.attrs THEN item.title ELSE JNone,
     sequence |-> IF item.attrs THEN item.sequence ELSE JNone,
     length |-> IF item.attrs THEN item.length ELSE JNone]

\* an item is joined to a slot once only
AppendToOncePerItem(agg, key, record) ==
    IF key \in DOMAIN agg
    THEN IF \E k \in 1..Len(agg[key]) : agg[key][k].item_id = record.item_id
         THEN agg ELSE [agg EXCEPT ![key] = Append(@, record)]
    ELSE [k \in DOMAIN agg \cup {key} |-> IF k = key THEN <<record>> ELSE agg[k]]

\* line 234: aggregated[plan_time_id].append(record) on a defaultdict(list)
AppendTo(agg, key, record) ==
    IF key \in DOMAIN agg THEN [agg EXCEPT ![key] = Append(@, record)]
    ELSE [k \in DOMAIN agg \cup {key} |-> IF k = key THEN <<record>> ELSE agg[k]]

\* a failed request is passed over
fetch_failure_swallowed(ok) == FALSE

\* fetch_json raised RuntimeError (lines 102-113) for a request that did not succeed
fetch_failed(ok) == ~ok

----------------------------------------------------------------------------
(* build_plan_schedule, lines 265-304 *)

\* sys.maxsize (line 275).  Python's is 2^63 - 1; the value is never compared with a
\* sequence number, since the first component of the key differs whenever it is used.
sys_maxsize == 2147483647

IsDigits(cs) == cs # <<>> /\ \A k \in 1..Len(cs) : 48 <= cs[k] /\ cs[k] <= 57

RECURSIVE DigitsValue(_, _)
DigitsValue(cs, acc) ==
    IF cs = <<>> THEN acc ELSE DigitsValue(Tail(cs), 10 * acc + (Head(cs) - 48))

\* int(sequence) for a string of decimal digits with an optional sign; ok is FALSE
\* for its ValueError
ParseInt(cs) ==
    IF IsDigits(cs) THEN [ok |-> TRUE, n |-> DigitsValue(cs, 0)]
    ELSE IF cs # <<>> /\ Head(cs) = 45 /\ IsDigits(Tail(cs))
         THEN [ok |-> TRUE, n |-> 0 - DigitsValue(Tail(cs), 0)]
    ELSE IF cs # <<>> /\ Head(cs) = 43 /\ IsDigits(Tail(cs))
         THEN [ok |-> TRUE, n |-> DigitsValue(Tail(cs), 0)]
    ELSE [ok |-> FALSE, n |-> 0]

\* strings are never parsed
_item_sequence_sort_key_ints_only(item) ==
    IF IsInt(item.sequence) THEN <<0, item.sequence.n>> ELSE <<1, sys_maxsize>>

\* lines 265-275
_item_sequence_sort_key(item) ==
    LET sequence == item.sequence
    IN  IF IsInt(sequence) THEN <<0, sequence.n>>
        ELSE IF IsStr(sequence) /\ ParseInt(sequence.cs).ok THEN <<0, ParseInt(sequence.cs).n>>
        ELSE <<1, sys_maxsize>>

\* a < b for two (int, int) tuples
KeyLess(a, b) == a[1] < b[1] \/ (a[1] = b[1] /\ a[2] < b[2])

\* one step of a stable sort: x goes behind every element that is not greater
RECURSIVE InsertItem(_, _)
InsertItem(sorted, x) ==
    IF sorted = <<>> THEN <<x>>
    ELSE IF KeyLess(_item_sequence_sort_key(x), _item_sequence_sort_key(Head(sorted)))
         THEN <<x>> \o sorted
         ELSE <<Head(sorted)>> \o InsertItem(Tail(sorted), x)

RECURSIVE SortItemsInto(_, _)
SortItemsInto(sorted, items) ==
    IF items = <<>> THEN sorted ELSE SortItemsInto(InsertItem(sorted, Head(items)), Tail(items))

\* lines 287-290: sorted(items, key=_item_sequence_sort_key)
SortItems(items) == SortItemsInto(<<>>, items)

\* the source value is passed on
OutputSequenceRaw(index, item) == item.sequence

\* line 296: the number written as "sequence" for the index-th item (enumerate, start=1)
OutputSequence(index, item) == JInt(index)

\* lines 291-299
Simplified(sorted_items) ==
    [k \in 1..Len(sorted_items) |->
        [title |-> sorted_items[k].title,
         sequence |-> OutputSequence(k, sorted_items[k]),
         length |-> sorted_items[k].length]]

\* lines 286-300: the entry of one time slot.  The code's tuple is (dt, label, items);
\* plan_time_id is the loop variable of the iteration that made it, kept to say which
\* slot an entry belongs to
Entry(plan_time_id, iso_time, items) ==
    [dt |-> format_time_label(iso_time).dt,
     label |-> format_time_label(iso_time).label,
     items |-> Simplified(SortItems(items)),
     plan_time_id |-> plan_time_id]

\* lines 281-300: the loop over PLAN_TIMES
RECURSIVE BuildEntries(_, _)
BuildEntries(times, byTime) ==
    IF times = <<>> THEN <<>>
    ELSE LET id == Head(times).id
             rest == BuildEntries(Tail(times), byTime)
         IN  IF id \notin DOMAIN byTime \/ byTime[id] = <<>> THEN rest
             ELSE <<Entry(id, Head(times).iso, byTime[id])>> \o rest

\* a datetime's place in time: aware ones compare by their UTC instant, naive ones by
\* their wall clock
DtInstant(dt) == IF dt.aware THEN dt.wall - dt.off ELSE dt.wall

\* the key without its datetime: (dt is None, label)
EntryLessByLabel(a, b) ==
    IF a.dt.ok # b.dt.ok THEN a.dt.ok ELSE StrLess(a.label, b.label)

\* line 302: a < b for the keys (dt is None, dt, label) of two entries whose datetimes
\* can be compared
EntryLess(a, b) ==
    IF a.dt.ok # b.dt.ok THEN a.dt.ok
    ELSE IF ~a.dt.ok THEN StrLess(a.label, b.label)
    ELSE IF DtInstant(a.dt) # DtInstant(b.dt) THEN DtInstant(a.dt) < DtInstant(b.dt)
    ELSE StrLess(a.label, b.label)

\* line 302: comparing an offset-naive with an offset-aware datetime raises TypeError,
\* and a sort of a list that holds both has to compare such a pair
SortRaises(entries) ==
    \E a, b \in 1..Len(entries) :
        /\ entries[a].dt.ok /\ entries[b].dt.ok
        /\ entries[a].dt.aware /\ ~entries[b].dt.aware

RECURSIVE InsertEntry(_, _)
InsertEntry(sorted, x) ==
    IF sorted = <<>> THEN <<x>>
    ELSE IF EntryLess(x, Head(sorted)) THEN <<x>> \o sorted
    ELSE <<Head(sorted)>> \o InsertEntry(Tail(sorted), x)

RECURSIVE SortScheduleInto(_, _)
SortScheduleInto(sorted, entries) ==
    IF entries = <<>> THEN sorted
    ELSE SortScheduleInto(InsertEntry(sorted, Head(entries)), Tail(entries))

\* line 302: schedule.sort(key=...), stable
SortSchedule(entries) == SortScheduleInto(<<>>, entries)

\* items.sort() in place of sorted(items)
StoredListsSortedInPlace(byTime) == [s \in DOMAIN byTime |-> SortItems(byTime[s])]

\* line 287: sorted() makes a new list, so the lists of PLAN_ITEMS_BY_TIME stay as
\* they are
StoredListsAfterSorted(byTime) == byTime

\* line 304: what build_plan_schedule returns
Returned(entries) ==
    [k \in 1..Len(entries) |-> [label |-> entries[k].label, items |-> entries[k].items]]

----------------------------------------------------------------------------
(* main, lines 335-354, one action per step.  Every fetch_* step draws the *)
(* outcome of its request (ok) and the decoded response from the sets it   *)
(* is given.                                                               *)
(***************************************************************************)

\* lines 346-348: a RuntimeError reaches main's handler
Fail(message) ==
    /\ pc' = "failed"
    /\ stderr' = Append(stderr, message)
    /\ exit_code' = 1

\* any other exception leaves main: the interpreter prints the traceback and exits 1
Crash ==
    /\ pc' = "crashed"
    /\ stderr' = Append(stderr, "Traceback")
    /\ exit_code' = 1

Running == UNCHANGED <<stderr, exit_code>>

\* lines 116-126 and 339-341
fetch_plan_with(Oks, Founds) ==
    /\ pc = "start"
    /\ UNCHANGED <<env_ok, PLAN_TIMES, PLAN_ITEMS_BY_TIME, plan_times, plan_items,
                   aggregated, i, j, schedule, stdout>>
    /\ IF ~env_ok
       THEN /\ Fail("Missing required environment variables")
            /\ UNCHANGED <<reqlog, PLAN_ID>>
       ELSE \E ok \in Oks, found \in Founds :
            /\ ok \/ ~found
            /\ reqlog' = Append(reqlog, Request("Plan", ok, 0, 0, NoDetail))
            /\ IF fetch_failed(ok)
               THEN Fail("Plan request failed") /\ UNCHANGED PLAN_ID
               ELSE /\ PLAN_ID' = IF found THEN JStr("p1") ELSE JNone
                    /\ IF found
                       THEN pc' = "have_plan" /\ Running
                       ELSE Fail("No plan ID returned; unable to fetch plan times.")

\* lines 129-131 and 342
fetch_plan_times_with(Oks, Responses) ==
    /\ pc = "have_plan"
    /\ UNCHANGED <<env_ok, PLAN_ID, PLAN_TIMES, PLAN_ITEMS_BY_TIME, plan_items,
                   aggregated, i, j, schedule, stdout>>
    /\ \E ok \in Oks, resp \in Responses \cup {NoResponse} :
       /\ ok \/ resp = NoResponse
       /\ ~ok \/ resp \in Responses
       /\ reqlog' = Append(reqlog, Request("Plan times", ok, 0, 0, NoDetail))
       /\ IF fetch_failed(ok)
          THEN Fail("Plan times request failed") /\ UNCHANGED plan_times
          ELSE plan_times' = resp /\ pc' = "times_fetched" /\ Running

\* lines 161-182 and 343
stash_service_times ==
    /\ pc = "times_fetched"
    /\ UNCHANGED <<env_ok, PLAN_ID, PLAN_ITEMS_BY_TIME, plan_times, plan_items,
                   aggregated, i, j, reqlog, schedule, stdout>>
    /\ PLAN_TIMES' = StashResult(plan_times).times
    /\ IF StashResult(plan_times).st = "crash" THEN Crash ELSE pc' = "stashed" /\ Running

\* lines 134-136 and 344
fetch_plan_items_with(Oks, Responses) ==
    /\ pc = "stashed"
    /\ UNCHANGED <<env_ok, PLAN_ID, PLAN_TIMES, PLAN_ITEMS_BY_TIME, plan_times,
                   aggregated, i, j, schedule, stdout>>
    /\ \E ok \in Oks, resp \in Responses \cup {NoResponse} :
       /\ ok \/ resp = NoResponse
       /\ ~ok \/ resp \in Responses
       /\ reqlog' = Append(reqlog, Request("Plan items", ok, 0, 0, NoDetail))
       /\ IF fetch_failed(ok)
          THEN Fail("Plan items request failed") /\ UNCHANGED plan_items
          ELSE plan_items' = resp /\ pc' = "items_fetched" /\ Running

\* lines 186-193: map_items_by_plan_time up to its loop
map_items_begin ==
    /\ pc = "items_fetched"
    /\ UNCHANGED <<env_ok, PLAN_ID, PLAN_TIMES, plan_times, plan_items, reqlog,
                   schedule, stdout, j>>
    /\ PLAN_ITEMS_BY_TIME' = <<>>
    /\ aggregated' = <<>>
    /\ IF ~plan_items.isdict THEN Crash /\ UNCHANGED i
       ELSE IF ~plan_items.data_is_list THEN pc' = "joined" /\ Running /\ UNCHANGED i
       ELSE pc' = "joining" /\ i' = 1 /\ Running

\* lines 195-210: the loop of line 195 takes up item i
join_item ==
    /\ pc = "joining"
    /\ j = 0
    /\ i <= Len(plan_items.data)
    /\ UNCHANGED <<env_ok, PLAN_ID, PLAN_TIMES, PLAN_ITEMS_BY_TIME, plan_times, plan_items,
                   aggregated, reqlog, schedule, stdout>>
    /\ LET item == plan_items.data[i]
       IN  IF ItemSkippedBeforeLinks(item) THEN i' = i + 1 /\ UNCHANGED <<pc, j>> /\ Running
           ELSE IF ItemLinksRaise(item) THEN Crash /\ UNCHANGED <<i, j>>
           ELSE IF ~IsStr(RelatedLink(item)) THEN i' = i + 1 /\ UNCHANGED <<pc, j>> /\ Running
           ELSE j' = 1 /\ UNCHANGED <<pc, i>> /\ Running

\* the loops of lines 212 and 195 move on from reference j of item i
NextRef ==
    IF j = Len(plan_items.data[i].refs) THEN i' = i + 1 /\ j' = 0 ELSE i' = i /\ j' = j + 1

\* lines 212-242: the loop of line 212 takes up reference j of item i; Details[j] are
\* the detail records the API may answer the j-th reference of an item with
join_ref_with(Oks, Details) ==
    /\ pc = "joining"
    /\ j >= 1
    /\ UNCHANGED <<env_ok, PLAN_ID, PLAN_TIMES, PLAN_ITEMS_BY_TIME, plan_times, plan_items,
                   schedule, stdout>>
    /\ LET item == plan_items.data[i]
           ref == item.refs[j]
       IN  IF RefSkipped(ref)
           THEN NextRef /\ UNCHANGED <<pc, aggregated, reqlog>> /\ Running
           ELSE \E ok \in Oks, detail \in Details[j] \cup {NoDetail} :
                /\ ok \/ detail = NoDetail
                /\ ~ok \/ detail \in Details[j]
                /\ reqlog' = Append(reqlog, Request("Item time", ok, i, j, detail))
                /\ IF fetch_failed(ok)
                   THEN Fail("Item time request failed") /\ UNCHANGED <<i, j, aggregated>>
                   ELSE IF plan_time_of(detail).st = "crash"
                   THEN Crash /\ UNCHANGED <<i, j, aggregated>>
                   ELSE /\ NextRef /\ UNCHANGED pc /\ Running
                        /\ aggregated' =
                             IF /\ plan_time_of(detail).st = "ok"
                                /\ Accepted(PLAN_TIMES, plan_time_of(detail).id.s)
                             THEN AppendTo(aggregated, plan_time_of(detail).id.s,
                                           JoinRecord(item, ref.id))
                             ELSE aggregated

\* line 244
join_end ==
    /\ pc = "joining"
    /\ j = 0
    /\ i > Len(plan_items.data)
    /\ UNCHANGED <<env_ok, PLAN_ID, PLAN_TIMES, plan_times, plan_items, aggregated, i, j,
                   reqlog, schedule, stdout>>
    /\ PLAN_ITEMS_BY_TIME' = aggregated
    /\ pc' = "joined" /\ Running

\* lines 278-304 and 350
build_plan_schedule ==
    /\ pc = "joined"
    /\ UNCHANGED <<env_ok, PLAN_ID, PLAN_TIMES, plan_times, plan_items, aggregated, i, j,
                   reqlog, stdout>>
    /\ PLAN_ITEMS_BY_TIME' = StoredListsAfterSorted(PLAN_ITEMS_BY_TIME)
    /\ LET entries == BuildEntries(PLAN_TIMES, PLAN_ITEMS_BY_TIME)
       IN  IF SortRaises(entries)
           THEN UNCHANGED schedule /\ Crash
           ELSE schedule' = SortSchedule(entries) /\ pc' = "built" /\ Running

\* lines 320-332 and 351-352, args.format being "text"
print_text ==
    /\ pc = "built"
    /\ UNCHANGED <<env_ok, PLAN_ID, PLAN_TIMES, PLAN_ITEMS_BY_TIME, plan_times, plan_items,
                   aggregated, i, j, reqlog, schedule, stderr>>
    /\ stdout' = Append(stdout, [format |-> "text", plan |-> Returned(schedule)])
    /\ pc' = "done"
    /\ exit_code' = 0

\* lines 307-317 and 353-354, args.format being "json"
print_json ==
    /\ pc = "built"
    /\ UNCHANGED <<env_ok, PLAN_ID, PLAN_TIMES, PLAN_ITEMS_BY_TIME, plan_times, plan_items,
                   aggregated, i, j, reqlog, schedule, stderr>>
    /\ stdout' = Append(stdout, [format |-> "json", plan |-> Returned(schedule)])
    /\ pc' = "done"
    /\ exit_code' = 0

\* the process as it starts: nothing fetched, the globals as lines 15-17 set them
Start(Envs) ==
    /\ pc = "start"
    /\ env_ok \in Envs
    /\ PLAN_ID = JNone
    /\ PLAN_TIMES = <<>>
    /\ PLAN_ITEMS_BY_TIME = <<>>
    /\ plan_times = NoResponse
    /\ plan_items = NoResponse
    /\ aggregated = <<>>
    /\ i = 0
    /\ j = 0
    /\ reqlog = <<>>
    /\ schedule = <<>>
    /\ stdout = <<>>
    /\ stderr = <<>>
    /\ exit_code = -1

----------------------------------------------------------------------------
(* The API's answers the model draws from *)

SlotIds == <<"t1", "t2", "t3", "t4", "t5">>
ItemIds == <<"i1", "i2", "i3", "i4", "i5">>
RefIds == <<"r1", "r2", "r3", "r4", "r5">>
Titles == <<"Welcome", "Song", "Sermon", "Offering", "Closing">>

\* 2024-01-07T15:00:00Z and its like: hours 24..47 are one winter day, 96..119 one
\* summer day
WinterZ15 == TsIso("Z", 39, 0)
WinterZ17 == TsIso("Z", 41, 0)
Winter0900Central == TsIso("offset", 33, -6)
SummerZ04 == TsIso("Z", 100, 0)
WinterNaive16 == TsIso("naive", 40, 0)
FirstHoursNaive == TsIso("naive", 2, 0)
WinterZsep15 == TsIso("zsep", 39, 0)
\* "TBD", "ASAP"
TextTBD == TsText(<<84, 66, 68>>)
TextASAP == TsText(<<65, 83, 65, 80>>)

\* the entries of a response: the k-th of the given shapes, with the k-th slot ID where
\* the shape has a string ID
PlaceEntries(shapes) ==
    [k \in 1..Len(shapes) |->
        [shapes[k] EXCEPT !.id = IF IsStr(@) THEN JStr(SlotIds[k])
                                 ELSE IF IsInt(@) THEN JInt(k) ELSE @]]

TimesResponses(Shapes, n) == {Response(PlaceEntries(sh)) : sh \in SeqsUpTo(Shapes, n)}

\* a response whose JSON is no object
NonDictResponse == [isdict |-> FALSE, data_is_list |-> FALSE, data |-> <<>>]

\* the references of an item: strings IDs by position, or an ID that is no string, or
\* a reference that is no object
PlaceRefs(shapes) ==
    [q \in 1..Len(shapes) |->
        CASE shapes[q] = "str" -> [isdict |-> TRUE, id |-> JStr(RefIds[q])]
          [] shapes[q] = "int" -> [isdict |-> TRUE, id |-> JInt(q)]
          [] OTHER -> [isdict |-> FALSE, id |-> JNone]]

\* an item as the API documents it
GoodItem(refs, sequence) ==
    [isdict |-> TRUE, id |-> JNone, rels |-> TRUE, item_times |-> TRUE,
     refs_is_list |-> TRUE, refs |-> refs, links |-> "dict",
     related |-> JStr("https://api/item_times"),
     attrs |-> TRUE, title |-> JNone, sequence |-> sequence, length |-> JInt(60)]

\* the items of a response: the k-th of the given shapes with the k-th ID and title
PlaceItems(shapes) ==
    [k \in 1..Len(shapes) |->
        [shapes[k] EXCEPT !.id = JStr(ItemIds[k]), !.title = JStr(Titles[k])]]

ItemsResponses(ShapeSeqs) == {Response(PlaceItems(sh)) : sh \in ShapeSeqs}

ResolveTo(slot) == Detail("dict", "dict", "dict", "dict", JStr(slot))

(* the pipeline *)

PipelineTimeShapes ==
    {TimeEntry(JStr(""), "service", WinterZ15),
     TimeEntry(JStr(""), "service", TextTBD),
     TimeEntry(JStr(""), "rehearsal", WinterZ15)}

PipelineTimesResponses ==
    TimesResponses(PipelineTimeShapes, MaxTimes) \cup {NoResponse, NonDictResponse}

PipelineRefs == {PlaceRefs(sh) : sh \in SeqsUpTo({"str", "int", "null"}, MaxRefs) \ {<<>>}}

\* items the join passes over, one that makes line 208 raise, and items with references;
\* the sequence numbers descend, so that the join order is not the sorted order
PipelineItemShapes ==
    {[GoodItem(<<>>, JInt(5)) EXCEPT !.isdict = FALSE],
     [GoodItem(<<>>, JInt(5)) EXCEPT !.item_times = FALSE],
     GoodItem(<<>>, JInt(5)),
     [GoodItem(PlaceRefs(<<"str">>), JInt(5)) EXCEPT !.links = "absent"],
     [GoodItem(PlaceRefs(<<"str">>), JInt(5)) EXCEPT !.links = "other"]}
    \cup {GoodItem(refs, JInt(5)) : refs \in PipelineRefs}

PlacePipelineItems(shapes) ==
    [k \in 1..Len(shapes) |->
        [PlaceItems(shapes)[k] EXCEPT !.sequence = JInt(10 - k)]]

PipelineItemsResponses ==
    {Response(PlacePipelineItems(sh)) : sh \in SeqsUpTo(PipelineItemShapes, MaxItems)}
    \cup {NoResponse, NonDictResponse}

PipelineDetails ==
    [ref \in 1..Len(RefIds) |->
        {ResolveTo("t1"), ResolveTo("t2"), ResolveTo("t9"),
         Detail("dict", "dict", "dict", "absent", JNone),
         Detail("dict", "dict", "dict", "dict", JInt(7)),
         Detail("other", "absent", "absent", "absent", JNone)}]

fetch_plan == fetch_plan_with(BOOLEAN, BOOLEAN)
fetch_plan_times == fetch_plan_times_with(BOOLEAN, PipelineTimesResponses)
fetch_plan_items == fetch_plan_items_with(BOOLEAN, PipelineItemsResponses)
join_ref == join_ref_with(BOOLEAN, PipelineDetails)

Init == Start(BOOLEAN)

Next ==
    \/ fetch_plan
    \/ fetch_plan_times
    \/ stash_service_times
    \/ fetch_plan_items
    \/ map_items_begin
    \/ join_item
    \/ join_ref
    \/ join_end
    \/ build_plan_schedule
    \/ print_text
    \/ print_json

Spec == Init /\ [][Next]_vars

----------------------------------------------------------------------------
(* stash_service_times on its own: every request succeeds, and the plan-times
   response is drawn from a wider set *)

StashTimeShapes ==
    {TimeEntry(JStr(""), "service", ts) :
        ts \in {WinterZ15, SummerZ04, WinterNaive16, FirstHoursNaive, TextTBD, WinterZsep15,
               TsNone}}
    \cup {TimeEntry(JInt(0), "service", WinterZ15),
          TimeEntry(JStr(""), "rehearsal", WinterZ15),
          [TimeEntry(JStr(""), "service", WinterZ15) EXCEPT !.attrs = FALSE],
          [TimeEntry(JStr(""), "service", WinterZ15) EXCEPT !.isdict = FALSE]}

StashTimesResponses ==
    TimesResponses(StashTimeShapes, MaxStashEntries) \cup {NoResponse, NonDictResponse}

InitStash == Start({TRUE})

NextStash ==
    \/ fetch_plan_with({TRUE}, {TRUE})
    \/ fetch_plan_times_with({TRUE}, StashTimesResponses)
    \/ stash_service_times

SpecStash == InitStash /\ [][NextStash]_vars

----------------------------------------------------------------------------
(* The ordering of the items of a slot: every request succeeds, there are two
   service slots, every item has one reference, and the items' sequence values
   are drawn from SequenceValues *)

\* 1, 3, "2", "10", "x", absent
SequenceValues ==
    {JInt(1), JInt(3), JChars(<<50>>), JChars(<<49, 48>>), JChars(<<120>>), JNone}

TwoSlots ==
    Response(PlaceEntries(<<TimeEntry(JStr(""), "service", WinterZ17),
                            TimeEntry(JStr(""), "service", WinterZ15)>>))

SortItemShapes == {GoodItem(PlaceRefs(<<"str">>), sequence) : sequence \in SequenceValues}

SortItemsResponses == ItemsResponses(SeqsUpTo(SortItemShapes, MaxSlotItems) \ {<<>>})

SortDetails == [ref \in 1..Len(RefIds) |-> {ResolveTo("t1"), ResolveTo("t2")}]

InitItems == Start({TRUE})

NextItems ==
    \/ fetch_plan_with({TRUE}, {TRUE})
    \/ fetch_plan_times_with({TRUE}, {TwoSlots})
    \/ stash_service_times
    \/ fetch_plan_items_with({TRUE}, SortItemsResponses)
    \/ map_items_begin
    \/ join_item
    \/ join_ref_with({TRUE}, SortDetails)
    \/ join_end
    \/ build_plan_schedule
    \/ print_text
    \/ print_json

SpecItems == InitItems /\ [][NextItems]_vars

----------------------------------------------------------------------------
(* The ordering of the slots: every request succeeds, the service slots' timestamps
   are drawn from SlotTimes, and one item has a reference into every slot *)

SlotTimes ==
    {WinterZ15, WinterZ17, Winter0900Central, SummerZ04, WinterZsep15, TextTBD, TextASAP}

SlotTimeShapes == {TimeEntry(JStr(""), "service", ts) : ts \in SlotTimes}

SlotTimesResponses == TimesResponses(SlotTimeShapes, MaxSlots)

OneItemEverySlot ==
    Response(PlaceItems(<<GoodItem(PlaceRefs([q \in 1..MaxSlots |-> "str"]), JInt(1))>>))

SlotDetails == [ref \in 1..Len(RefIds) |-> {ResolveTo(SlotIds[ref])}]

InitSlots == Start({TRUE})

NextSlots ==
    \/ fetch_plan_with({TRUE}, {TRUE})
    \/ fetch_plan_times_with({TRUE}, SlotTimesResponses)
    \/ stash_service_times
    \/ fetch_plan_items_with({TRUE}, {OneItemEverySlot})
    \/ map_items_begin
    \/ join_item
    \/ join_ref_with({TRUE}, SlotDetails)
    \/ join_end
    \/ build_plan_schedule
    \/ print_text
    \/ print_json

SpecSlots == InitSlots /\ [][NextSlots]_vars

----------------------------------------------------------------------------
(* Vocabulary of the properties *)

JoinDone == pc \in {"joined", "built", "done"}
Built == pc \in {"built", "done"}

\* the agenda items of the plan-items response
Items == plan_items.data

\* the places of the item-time detail requests in the log
DetailLog == {k \in 1..Len(reqlog) : reqlog[k].ctx = "Item time"}

\* the item has an item_times relationship with references and a related link
ItemEligible(item) ==
    /\ item.isdict /\ item.rels /\ item.item_times
    /\ item.refs_is_list /\ item.refs # <<>>
    /\ item.links = "dict" /\ IsStr(item.related)

\* reference j0 of item i0 has a string ID, on an item with a related link
RefFetched(i0, j0) ==
    /\ ItemEligible(Items[i0])
    /\ Items[i0].refs[j0].isdict
    /\ IsStr(Items[i0].refs[j0].id)

\* the detail record fetched for reference j0 of item i0 yields the string slot ID s
ResolvesTo(i0, j0, s) ==
    \E k \in DetailLog :
        /\ reqlog[k].item = i0 /\ reqlog[k].ref = j0 /\ reqlog[k].ok
        /\ plan_time_of(reqlog[k].detail).st = "ok"
        /\ plan_time_of(reqlog[k].detail).id.s = s

\* the reference resolves to s, and s is retained or nothing is retained
RefAccepted(i0, j0, s) ==
    /\ RefFetched(i0, j0)
    /\ ResolvesTo(i0, j0, s)
    /\ (PLAN_TIMES = <<>> \/ s \in DictKeys(PLAN_TIMES))

AcceptedRefs(i0, s) == {j0 \in 1..Len(Items[i0].refs) : RefAccepted(i0, j0, s)}

SlotUniverse == DOMAIN PLAN_ITEMS_BY_TIME \cup DictKeys(PLAN_TIMES) \cup {"t1", "t2", "t9"}

\* the joined list of a slot, empty for a slot without one
Joined(s) == IF s \in DOMAIN PLAN_ITEMS_BY_TIME THEN PLAN_ITEMS_BY_TIME[s] ELSE <<>>

\* how many elements of a sequence satisfy Test
CountIn(seq, Test(_)) == Cardinality({k \in 1..Len(seq) : Test(seq[k])})

\* the items of the schedule entries of slot s, entry by entry
EntriesOf(s) == {k \in 1..Len(schedule) : schedule[k].plan_time_id = s}

\* the process wrote its one document, and it is what build_plan_schedule returned
PrintedIsSchedule == pc = "done" => Len(stdout) = 1 /\ stdout[1].plan = Returned(schedule)

----------------------------------------------------------------------------
(* C1: a reference whose detail record yields no string time-slot ID, or one that is
   not in the non-empty retained mapping, adds no record to the join mapping and no
   item to the Schedule; an item with only such references (or none, or no related
   link) appears nowhere.  Stated from the other side: every record of the join mapping
   and every item of the Schedule comes from a reference that resolved to that slot and
   was accepted. *)
Theorem_C1 ==
    JoinDone =>
        /\ \A s \in DOMAIN PLAN_ITEMS_BY_TIME : \A q \in 1..Len(PLAN_ITEMS_BY_TIME[s]) :
              \E i0 \in 1..Len(Items) : \E j0 \in 1..Len(Items[i0].refs) :
                  /\ PLAN_ITEMS_BY_TIME[s][q].item_id = Items[i0].id
                  /\ PLAN_ITEMS_BY_TIME[s][q].item_time_id = Items[i0].refs[j0].id
                  /\ RefAccepted(i0, j0, s)
        /\ Built =>
              \A k \in 1..Len(schedule) : \A q \in 1..Len(schedule[k].items) :
                  \E i0 \in 1..Len(Items) : \E j0 \in 1..Len(Items[i0].refs) :
                      /\ schedule[k].items[q].title = Items[i0].title
                      /\ RefAccepted(i0, j0, schedule[k].plan_time_id)
                      /\ schedule[k].plan_time_id \in DictKeys(PLAN_TIMES)
        /\ PrintedIsSchedule

\* the run ended well with a retained slot, an item in the output, and a second item
\* whose only reference resolved to a slot that is not retained
Witness_C1 ==
    /\ pc = "done"
    /\ PLAN_TIMES # <<>>
    /\ schedule # <<>>
    /\ Len(Items) = 2
    /\ ResolvesTo(2, 1, "t9")
    /\ Len(Items[2].refs) = 1
    /\ \A k \in 1..Len(schedule) : \A q \in 1..Len(schedule[k].items) :
          schedule[k].items[q].title = Items[1].title

(* C2: when no service slot was retained, the filter is skipped and the final Schedule
   has an entry for every time slot that has at least one joined item. *)
Claim_C2 ==
    (Built /\ PLAN_TIMES = <<>>) =>
        \A s \in DOMAIN PLAN_ITEMS_BY_TIME :
            PLAN_ITEMS_BY_TIME[s] # <<>> => EntriesOf(s) # {}

(* C6: all or nothing.  No request follows a failed one; after a failed request,
   missing credentials or a missing plan the process has ended with exit code 1 and a
   diagnostic on standard error, having printed nothing; exit code 0 and printed output
   occur only when every request succeeded. *)
Theorem_C6 ==
    /\ \A k \in 1..Len(reqlog) : ~reqlog[k].ok => k = Len(reqlog)
    /\ (\E k \in 1..Len(reqlog) : ~reqlog[k].ok) =>
          pc = "failed" /\ exit_code = 1 /\ stderr # <<>> /\ stdout = <<>>
    /\ (~env_ok /\ pc # "start") =>
          pc = "failed" /\ exit_code = 1 /\ stderr # <<>> /\ stdout = <<>> /\ reqlog = <<>>
    /\ (~IsStr(PLAN_ID) /\ pc # "start") =>
          pc = "failed" /\ exit_code = 1 /\ stderr # <<>> /\ stdout = <<>> /\ Len(reqlog) <= 1
    /\ pc \in {"failed", "crashed"} => exit_code = 1 /\ stderr # <<>> /\ stdout = <<>>
    /\ (exit_code = 0 \/ stdout # <<>>) =>
          /\ pc = "done" /\ exit_code = 0 /\ Len(stdout) = 1 /\ stderr = <<>>
          /\ env_ok /\ IsStr(PLAN_ID)
          /\ \A k \in 1..Len(reqlog) : reqlog[k].ok
    /\ exit_code \in {-1, 0, 1}
    /\ exit_code = -1 <=> pc \notin {"failed", "crashed", "done"}

\* an item-time detail request failed after an earlier one had succeeded and its
\* record had been joined
Witness_C6 ==
    /\ pc = "failed"
    /\ Len(reqlog) = 5
    /\ reqlog[4].ctx = "Item time" /\ reqlog[4].ok
    /\ reqlog[5].ctx = "Item time" /\ ~reqlog[5].ok
    /\ aggregated # <<>>

(* C7: a malformed record met in the join (an item, its item_times relationship, its
   links, a reference, a detail record) is skipped without raising: the loops of
   map_items_by_plan_time never end in an uncaught exception. *)
Claim_C7 == ~(pc = "crashed" /\ i >= 1 /\ i <= Len(Items))

(* C9: once stash_service_times has finished PLAN_TIMES never changes, and once
   map_items_by_plan_time has finished PLAN_ITEMS_BY_TIME never changes. *)
Theorem_C9 ==
    [][/\ pc \notin {"start", "have_plan", "times_fetched"} => PLAN_TIMES' = PLAN_TIMES
       /\ JoinDone => PLAN_ITEMS_BY_TIME' = PLAN_ITEMS_BY_TIME]_vars

\* the output is printed, and a retained slot's items were put into another order than
\* they were joined in
Witness_C9 ==
    /\ pc = "done"
    /\ PLAN_TIMES # <<>>
    /\ \E k \in 1..Len(schedule) :
          /\ Len(schedule[k].items) >= 2
          /\ schedule[k].items[1].title # Joined(schedule[k].plan_time_id)[1].title

(* C10: fan-out without deduplication or loss.  Exactly one detail request is issued
   for every reference with a string ID on an item with a related link, and none for
   any other; every accepted reference appends exactly one record to its slot's list;
   an item appears in the Schedule once per accepted reference into a retained slot,
   and a retained slot's entry has as many items as accepted references point at it. *)
Theorem_C10 ==
    JoinDone =>
        /\ \A k \in DetailLog :
              /\ reqlog[k].item \in 1..Len(Items)
              /\ reqlog[k].ref \in 1..Len(Items[reqlog[k].item].refs)
              /\ RefFetched(reqlog[k].item, reqlog[k].ref)
        /\ \A i0 \in 1..Len(Items) : \A j0 \in 1..Len(Items[i0].refs) :
              Cardinality({k \in DetailLog : reqlog[k].item = i0 /\ reqlog[k].ref = j0})
                  = IF RefFetched(i0, j0) THEN 1 ELSE 0
        /\ \A s \in SlotUniverse :
              /\ \A i0 \in 1..Len(Items) :
                    CountIn(Joined(s), LAMBDA r : r.item_id = Items[i0].id)
                        = Cardinality(AcceptedRefs(i0, s))
              /\ Len(Joined(s)) = SumSeq([i0 \in 1..Len(Items) |-> Cardinality(AcceptedRefs(i0, s))])
        /\ Built =>
              \A s \in DictKeys(PLAN_TIMES) :
                  /\ Cardinality(EntriesOf(s)) = IF Joined(s) = <<>> THEN 0 ELSE 1
                  /\ \A k \in EntriesOf(s) :
                        /\ Len(schedule[k].items) = Len(Joined(s))
                        /\ \A i0 \in 1..Len(Items) :
                              CountIn(schedule[k].items, LAMBDA x : x.title = Items[i0].title)
                                  = Cardinality(AcceptedRefs(i0, s))
        /\ PrintedIsSchedule

\* the first item has two accepted references, into the same retained slot, and is
\* printed twice in that slot's entry
Witness_C10 ==
    /\ pc = "done"
    /\ Len(Items) >= 1
    /\ "t1" \in DictKeys(PLAN_TIMES)
    /\ Cardinality(AcceptedRefs(1, "t1")) = 2
    /\ \E k \in EntriesOf("t1") :
          CountIn(stdout[1].plan[k].items, LAMBDA x : x.title = Items[1].title) = 2

----------------------------------------------------------------------------
(* Properties of build_plan_schedule's two orderings and of stash_service_times *)

\* a sequence value that is an integer or a string parseable as one, and its number
SeqDefined(v) == IsInt(v) \/ (IsStr(v) /\ ParseInt(v.cs).ok)
SeqNumber(v) == IF IsInt(v) THEN v.n ELSE ParseInt(v.cs).n

\* where in its slot's joined list the q-th output item of entry k stood (the titles
\* of a slot's items differ where every item has one reference)
JoinIndex(k, q) ==
    CHOOSE x \in 1..Len(Joined(schedule[k].plan_time_id)) :
        Joined(schedule[k].plan_time_id)[x].title = schedule[k].items[q].title

\* the source sequence value of the q-th output item of entry k
SourceSequence(k, q) == Joined(schedule[k].plan_time_id)[JoinIndex(k, q)].sequence

(* C3: within every slot of the Schedule the items with an integer sequence, or a
   string parseable as one, come first in ascending numeric order, every other item
   comes after them, and items with equal keys keep the order they were joined in. *)
Theorem_C3 ==
    Built =>
        \A k \in 1..Len(schedule) :
            LET src == Joined(schedule[k].plan_time_id)
                out == schedule[k].items
            IN  /\ Len(out) = Len(src)
                /\ \A q \in 1..Len(out) : \E x \in 1..Len(src) : src[x].title = out[q].title
                /\ \A a, b \in 1..Len(out) :
                      a < b =>
                          LET sa == SourceSequence(k, a)
                              sb == SourceSequence(k, b)
                          IN  /\ JoinIndex(k, a) # JoinIndex(k, b)
                              /\ SeqDefined(sb) =>
                                    SeqDefined(sa) /\ SeqNumber(sa) <= SeqNumber(sb)
                              /\ (SeqDefined(sa) /\ SeqDefined(sb) /\ SeqNumber(sa) = SeqNumber(sb))
                                    => JoinIndex(k, a) < JoinIndex(k, b)
                              /\ (~SeqDefined(sa) /\ ~SeqDefined(sb))
                                    => JoinIndex(k, a) < JoinIndex(k, b)

\* a slot was joined as "2" then 1, and is printed as 1 then "2"
Witness_C3 ==
    /\ pc = "done"
    /\ \E k \in 1..Len(schedule) :
          LET src == Joined(schedule[k].plan_time_id)
          IN  /\ Len(src) = 2
              /\ src[1].sequence = JChars(<<50>>) /\ src[2].sequence = JInt(1)
              /\ stdout[1].plan[k].items[1].title = src[2].title
              /\ stdout[1].plan[k].items[2].title = src[1].title

(* C4: in every slot of the Schedule with N items the output sequence values are
   1, 2, ..., N in output order, whatever the source sequence values were; the output
   records hold the title, that number and the length, nothing of the source value. *)
Theorem_C4 ==
    Built =>
        /\ \A k \in 1..Len(schedule) :
              /\ Len(schedule[k].items) = Len(Joined(schedule[k].plan_time_id))
              /\ Len(schedule[k].items) >= 1
              /\ \A q \in 1..Len(schedule[k].items) :
                    /\ schedule[k].items[q].sequence = JInt(q)
                    /\ DOMAIN schedule[k].items[q] = {"title", "sequence", "length"}
        /\ PrintedIsSchedule

\* a slot of three items whose source values have a gap (3 alone), a non-numeric string
\* and an absent value
Witness_C4 ==
    /\ pc = "done"
    /\ \E k \in 1..Len(schedule) :
          LET src == Joined(schedule[k].plan_time_id)
          IN  /\ Len(src) = 3
              /\ {src[x].sequence : x \in 1..3} = {JInt(3), JChars(<<120>>), JNone}
              /\ [q \in 1..3 |-> stdout[1].plan[k].items[q].sequence.n] = <<1, 2, 3>>

\* the timestamp PLAN_TIMES keeps for the slot of entry k, parsed
StoredDt(k) == parse_iso_timestamp(DictValue(PLAN_TIMES, schedule[k].plan_time_id))

(* C5: the Schedule has one entry for every retained slot with a joined item; the
   entries whose stored timestamp parses come first, in ascending order of time; the
   entries whose stored timestamp does not parse come after all of them, ordered by
   their label, which is the stored string. *)
Theorem_C5 ==
    Built =>
        /\ {schedule[k].plan_time_id : k \in 1..Len(schedule)}
              = {s \in DictKeys(PLAN_TIMES) : Joined(s) # <<>>}
        /\ \A a, b \in 1..Len(schedule) :
              a < b =>
                  /\ schedule[a].plan_time_id # schedule[b].plan_time_id
                  /\ StoredDt(b).ok =>
                        /\ StoredDt(a).ok
                        /\ StoredDt(a).aware = StoredDt(b).aware
                        /\ DtInstant(StoredDt(a)) <= DtInstant(StoredDt(b))
                  /\ (~StoredDt(a).ok /\ ~StoredDt(b).ok) =>
                        /\ schedule[a].label = DictValue(PLAN_TIMES, schedule[a].plan_time_id).cs
                        /\ schedule[b].label = DictValue(PLAN_TIMES, schedule[b].plan_time_id).cs
                        /\ ~StrLess(schedule[b].label, schedule[a].label)

\* three slots stashed as "TBD", 11:00 and 9:00 are printed as 9:00, 11:00, "TBD"
Witness_C5 ==
    /\ pc = "done"
    /\ Len(schedule) = 3
    /\ [k \in 1..3 |-> schedule[k].plan_time_id] = <<"t3", "t2", "t1">>
    /\ ~StoredDt(3).ok
    /\ DtInstant(StoredDt(1)) < DtInstant(StoredDt(2))
    /\ stdout[1].plan[1].label = <<57, 58, 48, 48, 32, 65, 77>>

\* the entries of the plan-times response
TimeEntries == IF plan_times.isdict /\ plan_times.data_is_list THEN plan_times.data ELSE <<>>

\* an entry of kind "service" with a string ID and a string timestamp
ServiceEntry(entry) ==
    /\ entry.isdict /\ entry.attrs
    /\ entry.time_type = "service"
    /\ IsStr(entry.id) /\ IsStr(entry.starts_at)

(* C8: after stash_service_times PLAN_TIMES has a key for exactly the entries of kind
   "service" with an ID and a start timestamp; the value of a kept entry is its
   timestamp in the display timezone (the same instant, at the offset America/Chicago
   has then; 15:00Z of a winter day is 09:00-06:00), or the original string where the
   timestamp does not parse. *)
Theorem_C8 ==
    pc = "stashed" =>
        /\ DictKeys(PLAN_TIMES) =
              {TimeEntries[k].id.s : k \in {x \in 1..Len(TimeEntries) : ServiceEntry(TimeEntries[x])}}
        /\ Len(PLAN_TIMES) = Cardinality(DictKeys(PLAN_TIMES))
        /\ \A k \in 1..Len(TimeEntries) :
              ServiceEntry(TimeEntries[k]) =>
                  LET ts == TimeEntries[k].starts_at
                      v == DictValue(PLAN_TIMES, TimeEntries[k].id.s)
                      parsed == fromisoformat(ReplaceZ(ts))
                  IN  /\ parsed.ok =>
                            /\ v.t = "str" /\ v.form = "offset"
                            /\ v.wall - v.off = DtInstant(parsed)
                            /\ v.off = CentralOffset(DtInstant(parsed))
                      /\ ~parsed.ok => v = ts
                      /\ ts = WinterZ15 => v = Winter0900Central

\* a response of three entries: one kept and normalized, one kept verbatim, one skipped
Witness_C8 ==
    /\ pc = "stashed"
    /\ Len(TimeEntries) = 3
    /\ Len(PLAN_TIMES) = 2
    /\ \E a, b \in 1..2 : PLAN_TIMES[a].iso.form = "offset" /\ PLAN_TIMES[b].iso = TextTBD
    /\ \E k \in 1..3 : TimeEntries[k].time_type = "rehearsal"

====
